---- MODULE Spec2Model ----
(***************************************************************************)
(* Model of advanced-vector/vector.h: RawMemory<T> (an owner of a block    *)
(* of uninitialized slots) and Vector<T> (a RawMemory plus size_).         *)
(*                                                                         *)
(* The heap is a finite set of blocks; a block is a sequence of slots and  *)
(* a slot records whether an object lives in it (st) and the value its     *)
(* bytes hold (val).  Offsets are 0-based as in the source; slot offset    *)
(* off of a block is element off+1 of the block's sequence.                *)
(***************************************************************************)
EXTENDS Integers, Sequences, FiniteSets, TLC

\* ---- bounds of the model ------------------------------------------------
MaxCap == 4
MaxCapTwo == 2
NumVals == 2
NumBlocks == 3

VARIABLES
    heap,    \* block id -> [alloc, slots, twice]: the memory provider's regions
    vecs,    \* "A","B" -> [alive, buf, cap, size]: Vector objects (data_, size_)
    policy,  \* relocation policy of the element type T: "move" or "copy"
    run,     \* "ok", "aborted" (a failed assert, or a release the provider
             \* refused) or "ub" (a dangling block is held)
    last,    \* the last call: what was called and what it returned or threw
    ref,     \* reference list for vector A
    twin,    \* "AB": A was copy-assigned from B since the last whole-object call
             \* ("BA": B from A; "none": neither)
    raws     \* "P","Q" -> [alive, buf, cap]: RawMemory objects of their own
             \* (buffer_, capacity_)

vars == <<heap, vecs, policy, run, last, ref, twin, raws>>

Names == {"A", "B"}
RawNames == {"P", "Q"}
Blocks == 1..NumBlocks
Vals == 1..NumVals

\* T() as written by uninitialized_value_construct_n
DefaultVal == 0
\* the value left in an object that was moved from
MovedVal == -1

\* pointer arithmetic: the address of slot off of block b, in units of sizeof(T)
Stride == 2 * MaxCap + 4
Addr(b, off) == b * Stride + off
nullptr == Addr(0, 0)

Uninit == [st |-> "u", val |-> DefaultVal]
LiveSlot(x) == [st |-> "l", val |-> x]
\* a region the provider holds; twice: it was released while not handed out
FreeBlock == [alloc |-> FALSE, slots |-> <<>>, twice |-> FALSE]

\* ---- sequences: the reference list ----------------------------------------
Front(s) == SubSeq(s, 1, Len(s) - 1)
InsertAt(s, i, x) == SubSeq(s, 1, i) \o <<x>> \o SubSeq(s, i + 1, Len(s))
RemoveAt(s, j) == SubSeq(s, 1, j) \o SubSeq(s, j + 2, Len(s))

\* ---- RawMemory ------------------------------------------------------------
\* RawMemory::Allocate: n slots of raw memory, nullptr for n = 0
Allocate(h, n) ==
    IF n = 0 THEN [h |-> h, buf |-> 0]
    ELSE LET b == CHOOSE x \in Blocks :
                     /\ ~h[x].alloc
                     /\ \A y \in Blocks : ~h[y].alloc => x <= y
         IN [h |-> [h EXCEPT ![b] = [alloc |-> TRUE, slots |-> [i \in 1..n |-> Uninit],
                                     twice |-> FALSE]],
             buf |-> b]

\* RawMemory::Deallocate / ~RawMemory: operator delete(buf); delete of nullptr
\* does nothing, delete of a region that is not handed out is a second release
Deallocate(h, buf) ==
    IF buf = 0 THEN h
    ELSE IF h[buf].alloc THEN [h EXCEPT ![buf] = FreeBlock]
    ELSE [h EXCEPT ![buf].twice = TRUE]

HasFree(h) == \E b \in Blocks : ~h[b].alloc

\* some region has been released while it was not handed out
SecondRelease(h) == \E b \in Blocks : h[b].twice

\* what a second release does to the program: the provider detects it and stops
\* the program, or it goes on with a corrupted heap
AfterRelease(h) == IF SecondRelease(h) THEN {"aborted", "ub"} ELSE {"ok"}

\* ---- a call in progress: m = [h, nc, nd, lv] -------------------------------
\* h: the heap; nc, nd: constructor and destructor calls of T made so far in
\* the call; lv: some step broke the slot lifetime discipline.
Start(h) == [h |-> h, nc |-> 0, nd |-> 0, lv |-> FALSE]

SlotAt(m, b, off) == m.h[b].slots[off + 1]
ValAt(m, b, off) == SlotAt(m, b, off).val

\* new (p) T(x)
ConstructAt(m, b, off, x) ==
    [m EXCEPT !.h[b].slots[off + 1] = LiveSlot(x),
              !.nc = @ + 1,
              !.lv = @ \/ SlotAt(m, b, off).st = "l"]

\* std::destroy_at(p)
DestroyAt(m, b, off) ==
    [m EXCEPT !.h[b].slots[off + 1] = Uninit,
              !.nd = @ + 1,
              !.lv = @ \/ SlotAt(m, b, off).st = "u"]

\* *p = x (copy assignment of a value)
AssignAt(m, b, off, x) ==
    [m EXCEPT !.h[b].slots[off + 1].val = x,
              !.lv = @ \/ SlotAt(m, b, off).st = "u"]

\* *dst = std::move(*src) within block b
MoveAssignAt(m, b, dst, src) ==
    LET m1 == AssignAt(m, b, dst, ValAt(m, b, src))
    IN [m1 EXCEPT !.h[b].slots[src + 1].val = MovedVal,
                  !.lv = @ \/ SlotAt(m, b, src).st = "u"]

\* std::destroy_n(p, n)
RECURSIVE destroy_n(_, _, _, _)
destroy_n(m, b, off, n) ==
    IF n = 0 THEN m ELSE destroy_n(DestroyAt(m, b, off), b, off + 1, n - 1)

\* the first n copy constructions of uninitialized_copy_n
RECURSIVE CopyLoop(_, _, _, _, _, _)
CopyLoop(m, sb, soff, db, doff, n) ==
    IF n = 0 THEN m
    ELSE CopyLoop(ConstructAt(m, db, doff, ValAt(m, sb, soff)), sb, soff + 1, db, doff + 1, n - 1)

\* std::uninitialized_copy_n(src, n, dst); the failAt-th copy throws (0: none):
\* the copies made so far are destroyed and the exception leaves
uninitialized_copy_n(m, sb, soff, n, db, doff, failAt) ==
    IF failAt \in 1..n
    THEN [m |-> destroy_n(CopyLoop(m, sb, soff, db, doff, failAt - 1), db, doff, failAt - 1),
          err |-> TRUE]
    ELSE [m |-> CopyLoop(m, sb, soff, db, doff, n), err |-> FALSE]

\* std::uninitialized_move_n(src, n, dst) for a type whose move cannot throw
RECURSIVE uninitialized_move_n(_, _, _, _, _, _)
uninitialized_move_n(m, sb, soff, n, db, doff) ==
    IF n = 0 THEN m
    ELSE LET m1 == ConstructAt(m, db, doff, ValAt(m, sb, soff))
             m2 == [m1 EXCEPT !.h[sb].slots[soff + 1].val = MovedVal,
                              !.lv = @ \/ SlotAt(m, sb, soff).st = "u"]
         IN uninitialized_move_n(m2, sb, soff + 1, n - 1, db, doff + 1)

\* the first n value constructions of uninitialized_value_construct_n
RECURSIVE ValueLoop(_, _, _, _)
ValueLoop(m, b, off, n) ==
    IF n = 0 THEN m ELSE ValueLoop(ConstructAt(m, b, off, DefaultVal), b, off + 1, n - 1)

\* std::uninitialized_value_construct_n(p, n); the failAt-th construction throws
uninitialized_value_construct_n(m, b, off, n, failAt) ==
    IF failAt \in 1..n
    THEN [m |-> destroy_n(ValueLoop(m, b, off, failAt - 1), b, off, failAt - 1), err |-> TRUE]
    ELSE [m |-> ValueLoop(m, b, off, n), err |-> FALSE]

\* std::move_backward(first, last, d_last) within block b: from the back
RECURSIVE move_backward(_, _, _, _, _)
move_backward(m, b, first, lst, dlast) ==
    IF first = lst THEN m
    ELSE move_backward(MoveAssignAt(m, b, dlast - 1, lst - 1), b, first, lst - 1, dlast - 1)

\* ---- Vector: queries -------------------------------------------------------
Size(v) == v.size
Capacity(v) == v.cap

\* Vector::begin: &data_[0] when size_ > 0, else nullptr
begin(v) == IF v.size > 0 THEN Addr(v.buf, 0) ELSE nullptr
\* Vector::end: begin() + size_
end(v) == begin(v) + v.size

\* the block of v is one the provider has handed out and not taken back
Owned(h, v) == v.buf = 0 \/ (h[v.buf].alloc /\ Len(h[v.buf].slots) = v.cap)

\* operator[] for 0 <= i < Size(): the elements in order
Elems(h, v) ==
    IF v.buf # 0 /\ h[v.buf].alloc /\ v.size <= Len(h[v.buf].slots)
    THEN [i \in 1..v.size |-> h[v.buf].slots[i].val]
    ELSE <<>>

EmptyVec == [alive |-> TRUE, buf |-> 0, cap |-> 0, size |-> 0]
NoVec == [alive |-> FALSE, buf |-> 0, cap |-> 0, size |-> 0]

\* RawMemory() = default: buffer_ = nullptr, capacity_ = 0
EmptyRaw == [alive |-> TRUE, buf |-> 0, cap |-> 0]
NoRaw == [alive |-> FALSE, buf |-> 0, cap |-> 0]


\* ---- RawMemory objects of their own ---------------------------------------------
\* explicit RawMemory(size_t capacity): buffer_(Allocate(capacity)), capacity_(capacity)
RawCtor(h, capacity) ==
    LET a == Allocate(h, capacity)
    IN [h |-> a.h, r |-> [alive |-> TRUE, buf |-> a.buf, cap |-> capacity]]

\* RawMemory(RawMemory&& other): buffer_(std::move(other.GetAddress())),
\* capacity_(other.Capacity()); GetAddress returns the pointer by value and
\* nothing is written to other
RawMoveCtor(other) ==
    [r |-> [alive |-> TRUE, buf |-> other.buf, cap |-> other.cap], other |-> other]

\* RawMemory::operator=(RawMemory&& rhs): buffer_ = std::move(rhs.GetAddress());
\* capacity_ = rhs.Capacity(); the region held before is not released and
\* nothing is written to rhs
RawMoveAssign(r, rhs) ==
    [r |-> [r EXCEPT !.buf = rhs.buf, !.cap = rhs.cap], other |-> rhs]

\* RawMemory::Swap(other)
RawSwap(r, other) ==
    [r |-> [r EXCEPT !.buf = other.buf, !.cap = other.cap],
     other |-> [other EXCEPT !.buf = r.buf, !.cap = r.cap]]

\* RawMemory::~RawMemory: Deallocate(buffer_)
RawDtor(h, r) == Deallocate(h, r.buf)

\* ---- results of a call ----------------------------------------------------
\* m: the machine after the call; v: the Vector after it; err: an exception
\* left the call; ret: the address returned; abort: an assert failed;
\* dangling: the Vector is left holding a released block
Res(m, v, err, ret) ==
    [m |-> m, v |-> v, err |-> err, ret |-> ret, abort |-> FALSE, dangling |-> FALSE]

\* RawMemory::Swap as used on data_ and a local block nd = [buf, cap]
SwapData(v, nd) ==
    [v |-> [v EXCEPT !.buf = nd.buf, !.cap = nd.cap], nd |-> [buf |-> v.buf, cap |-> v.cap]]

\* a growth by one slot
GrowByOne(c) == c + 1

\* Capacity() == 0 ? 1 : (Capacity() * 2)
GrowCapacity(c) == IF c = 0 THEN 1 ELSE c * 2

\* MoveOrCopy with the relocation left out: the new block is swapped in as it is
MoveOrCopyNoRelocate(m, v, nd, failAt) ==
    LET sw == SwapData(v, nd)
    IN [m |-> destroy_n(m, v.buf, 0, v.size), v |-> sw.v, nd |-> sw.nd, err |-> FALSE]

\* Vector::MoveOrCopy(new_data); the failAt-th copy throws (copy policy only)
MoveOrCopy(m, v, nd, failAt) ==
    LET r == IF policy = "move"
             THEN [m |-> uninitialized_move_n(m, v.buf, 0, v.size, nd.buf, 0), err |-> FALSE]
             ELSE uninitialized_copy_n(m, v.buf, 0, v.size, nd.buf, 0, failAt)
    IN IF r.err
       THEN [m |-> r.m, v |-> v, nd |-> nd, err |-> TRUE]
       ELSE LET sw == SwapData(v, nd)
            IN [m |-> destroy_n(r.m, v.buf, 0, v.size), v |-> sw.v, nd |-> sw.nd, err |-> FALSE]

\* a Reserve that compares new_capacity with size_ instead of the capacity
ReserveComparesSize(m, v, n, k) ==
    IF n <= v.size THEN Res(m, v, FALSE, nullptr)
    ELSE LET a == Allocate(m.h, n)
             r == MoveOrCopy([m EXCEPT !.h = a.h], v, [buf |-> a.buf, cap |-> n], k)
         IN Res([r.m EXCEPT !.h = Deallocate(@, r.nd.buf)], r.v, r.err, nullptr)

\* Vector::Reserve(new_capacity); k: which copy throws (0: none)
Reserve(m, v, n, k) ==
    IF n <= v.cap THEN Res(m, v, FALSE, nullptr)
    ELSE LET a == Allocate(m.h, n)
             r == MoveOrCopy([m EXCEPT !.h = a.h], v, [buf |-> a.buf, cap |-> n], k)
         IN \* new_data goes out of scope on both paths: ~RawMemory
            Res([r.m EXCEPT !.h = Deallocate(@, r.nd.buf)], r.v, r.err, nullptr)

\* Args&&... args: a reference, to an object outside the Vector that holds x, or
\* to element i of the Vector itself
ByValue(x) == [self |-> FALSE, at |-> x]
BySelf(i) == [self |-> TRUE, at |-> i]

\* the value read through the reference when the element is constructed from it
Arg(m, v, x) == IF x.self THEN ValAt(m, v.buf, x.at) ELSE x.at

\* Vector::EmplaceBack(args...); k: which construction throws (1: the new element,
\* 1 + j: the j-th copy of an existing element), 0: none
EmplaceBack(m, v, x, k) ==
    IF Capacity(v) > v.size
    THEN IF k = 1 THEN Res(m, v, TRUE, nullptr)
         ELSE Res(ConstructAt(m, v.buf, v.size, Arg(m, v, x)), [v EXCEPT !.size = @ + 1],
                  FALSE, Addr(v.buf, v.size))
    ELSE LET c == IF v.size = Capacity(v) THEN GrowCapacity(Capacity(v)) ELSE Capacity(v)
             a == Allocate(m.h, c)
             m0 == [m EXCEPT !.h = a.h]
         IN IF k = 1 THEN Res([m0 EXCEPT !.h = Deallocate(@, a.buf)], v, TRUE, nullptr)
            ELSE LET m1 == ConstructAt(m0, a.buf, v.size, Arg(m0, v, x))
                     r == MoveOrCopy(m1, v, [buf |-> a.buf, cap |-> c], k - 1)
                     m2 == [r.m EXCEPT !.h = Deallocate(@, r.nd.buf)]
                 IN IF r.err THEN Res(m2, v, TRUE, nullptr)
                    ELSE Res(m2, [r.v EXCEPT !.size = @ + 1], FALSE, Addr(r.v.buf, v.size))

\* Vector::PopBack
PopBack(m, v) ==
    Res(destroy_n(m, v.buf, v.size - 1, 1), [v EXCEPT !.size = @ - 1], FALSE, nullptr)

\* Resize that sets size_ before the new elements are constructed
ResizeSizeFirst(m, v, n, k) ==
    IF n < v.size
    THEN Res(destroy_n(m, v.buf, n, v.size - n), [v EXCEPT !.size = n], FALSE, nullptr)
    ELSE LET copies == IF policy = "copy" /\ n > v.cap THEN v.size ELSE 0
             r == Reserve(m, v, n, k)
         IN IF r.err THEN r
            ELSE LET c == uninitialized_value_construct_n(r.m, r.v.buf, v.size, n - v.size,
                                                          k - copies)
                 IN Res(c.m, [r.v EXCEPT !.size = n], c.err, nullptr)

\* a Resize that gives the capacity above new_size back when it shrinks
ResizeShrinksCapacity(m, v, n, k) ==
    IF n < v.size
    THEN Res(destroy_n(m, v.buf, n, v.size - n), [v EXCEPT !.size = n, !.cap = n],
             FALSE, nullptr)
    ELSE LET copies == IF policy = "copy" /\ n > v.cap THEN v.size ELSE 0
             r == Reserve(m, v, n, k)
         IN IF r.err THEN r
            ELSE LET c == uninitialized_value_construct_n(r.m, r.v.buf, v.size, n - v.size,
                                                          k - copies)
                 IN IF c.err THEN Res(c.m, r.v, TRUE, nullptr)
                    ELSE Res(c.m, [r.v EXCEPT !.size = n], FALSE, nullptr)

\* Vector::Resize(new_size); k: which construction throws: the copies of
\* Reserve come first, the value constructions after them
Resize(m, v, n, k) ==
    IF n < v.size
    THEN Res(destroy_n(m, v.buf, n, v.size - n), [v EXCEPT !.size = n], FALSE, nullptr)
    ELSE LET copies == IF policy = "copy" /\ n > v.cap THEN v.size ELSE 0
             r == Reserve(m, v, n, k)
         IN IF r.err THEN r
            ELSE LET c == uninitialized_value_construct_n(r.m, r.v.buf, v.size, n - v.size,
                                                          k - copies)
                 IN IF c.err THEN Res(c.m, r.v, TRUE, nullptr)
                    ELSE Res(c.m, [r.v EXCEPT !.size = n], FALSE, nullptr)

\* the relocation of Emplace's growth branch: the elements before offset, then
\* the elements from offset on.  The moves go to offset + 1 (line 175), the
\* copies to offset (line 188).  fail: which copy throws (0: none)
EmplaceRelocate(m, v, nd, offset, fail) ==
    IF policy = "move"
    THEN LET m1 == uninitialized_move_n(m, v.buf, 0, offset, nd.buf, 0)
         IN [m |-> uninitialized_move_n(m1, v.buf, offset, v.size - offset, nd.buf, offset + 1),
             err |-> FALSE]
    ELSE LET c1 == uninitialized_copy_n(m, v.buf, 0, offset, nd.buf, 0, fail)
         IN IF c1.err THEN c1
            ELSE uninitialized_copy_n(c1.m, v.buf, offset, v.size - offset, nd.buf, offset,
                                      fail - offset)

\* the catch (...) blocks of Emplace: destroy_at(new_data + offset), then
\* new_data.~RawMemory(); nothing is rethrown
EmplaceCatch(m, nd, offset) ==
    LET m1 == DestroyAt(m, nd.buf, offset)
    IN [m1 EXCEPT !.h = Deallocate(@, nd.buf)]

\* Vector::Emplace(pos, args...) with pos = begin() + offset.
\* k: which construction throws (0: none).  Growth: 1 is the new element, 1 + j
\* the j-th copy.  Spare capacity: 1 is the temporary obj, 2 the move
\* construction from obj (which can throw only for a copy-relocated type).
\* g: the bytes found in a slot of the new block that nothing was written to
Emplace(m, v, offset, x, k, g) ==
    IF Capacity(v) <= v.size
    THEN LET c == GrowCapacity(Capacity(v))
             a == Allocate(m.h, c)
             nd == [buf |-> a.buf, cap |-> c]
             m0 == [m EXCEPT !.h = a.h]
         IN IF k = 1 THEN Res([m0 EXCEPT !.h = Deallocate(@, a.buf)], v, TRUE, nullptr)
            ELSE LET m1 == ConstructAt(m0, nd.buf, offset, Arg(m0, v, x))
                     rel == EmplaceRelocate(m1, v, nd, offset, k - 1)
                     m2 == IF rel.err THEN EmplaceCatch(rel.m, nd, offset) ELSE rel.m
                     m3 == destroy_n(m2, v.buf, 0, v.size)
                     sw == SwapData(v, nd)
                     \* the slots of the new block nothing was constructed in
                     \* hold whatever the region held
                     m4 == IF ~rel.err /\ SlotAt(m3, nd.buf, v.size).st = "u"
                           THEN [m3 EXCEPT !.h[nd.buf].slots[v.size + 1].val = g]
                           ELSE m3
                     \* new_data leaves scope holding the old block
                     m5 == [m4 EXCEPT !.h = Deallocate(@, sw.nd.buf)]
                 IN [Res(m5, [sw.v EXCEPT !.size = @ + 1], FALSE, Addr(sw.v.buf, offset))
                       EXCEPT !.dangling = rel.err]
    ELSE IF k = 1 THEN Res(m, v, TRUE, nullptr)
         ELSE LET \* T obj(args...): the temporary is built before the shift
                  obj == Arg(m, v, x)
                  m1 == [m EXCEPT !.nc = @ + 1]
                  m2 == move_backward(m1, v.buf, offset, v.size, v.size + 1)
              IN IF k = 2
                 THEN Res([m2 EXCEPT !.nd = @ + 1], v, TRUE, nullptr)
                 ELSE LET m3 == ConstructAt(m2, v.buf, offset, obj)
                      IN Res([m3 EXCEPT !.nd = @ + 1], [v EXCEPT !.size = @ + 1], FALSE,
                             Addr(v.buf, offset))

\* the forward shift of Erase: *iter = std::move(*std::next(iter)) for iter
\* from offset up to end() - 1
RECURSIVE EraseShift(_, _, _, _)
EraseShift(m, b, iter, lastIdx) ==
    IF iter = lastIdx THEN m
    ELSE EraseShift(MoveAssignAt(m, b, iter, iter + 1), b, iter + 1, lastIdx)

\* the value Erase returns: &data_[pos - begin()], evaluated after size_ -= 1.
\* begin() is nullptr once the Vector is empty, so the index is then the
\* address pos itself: RawMemory::operator[] asserts index < capacity_ and a
\* build without asserts returns buffer_ + index.  asserts: the build checks them
EraseReturn(v, pos, asserts) ==
    LET index == pos - begin(v)
    IN IF index < v.cap THEN [abort |-> FALSE, ret |-> Addr(v.buf, index)]
       ELSE IF asserts THEN [abort |-> TRUE, ret |-> nullptr]
       ELSE [abort |-> FALSE, ret |-> Addr(v.buf, index)]

\* Vector::Erase(pos) with pos = begin() + offset, for a type whose move
\* assignment cannot throw
Erase(m, v, offset, asserts) ==
    LET pos == begin(v) + offset
        m1 == EraseShift(m, v.buf, offset, v.size - 1)
        m2 == DestroyAt(m1, v.buf, v.size - 1)
        v1 == [v EXCEPT !.size = @ - 1]
        r == EraseReturn(v1, pos, asserts)
    IN [Res(m2, v1, FALSE, r.ret) EXCEPT !.abort = r.abort]

\* T& operator[](index) used to overwrite an element: v[index] = x
Overwrite(m, v, index, x) ==
    Res(AssignAt(m, v.buf, index, x), v, FALSE, Addr(v.buf, index))

\* ---- whole-object operations ------------------------------------------------
\* Vector(const Vector& other): data_(other.size_), size_(other.size_), then
\* uninitialized_copy_n; a throwing copy releases data_ (member destructor)
CopyCtor(m, other, k) ==
    LET a == Allocate(m.h, other.size)
        c == uninitialized_copy_n([m EXCEPT !.h = a.h], other.buf, 0, other.size, a.buf, 0, k)
    IN IF c.err
       THEN Res([c.m EXCEPT !.h = Deallocate(@, a.buf)], NoVec, TRUE, nullptr)
       ELSE Res(c.m, [alive |-> TRUE, buf |-> a.buf, cap |-> other.size, size |-> other.size],
                FALSE, nullptr)

\* explicit Vector(size_t size)
SizedCtor(m, n, k) ==
    LET a == Allocate(m.h, n)
        c == uninitialized_value_construct_n([m EXCEPT !.h = a.h], a.buf, 0, n, k)
    IN IF c.err
       THEN Res([c.m EXCEPT !.h = Deallocate(@, a.buf)], NoVec, TRUE, nullptr)
       ELSE Res(c.m, [alive |-> TRUE, buf |-> a.buf, cap |-> n, size |-> n], FALSE, nullptr)

\* ~Vector: destroy_n(data_, size_), then ~RawMemory.  When data_ holds a block
\* that was released, the destructors of T run on memory that is not the
\* Vector's and the block is released again
Dtor(m, v) ==
    LET m1 == IF Owned(m.h, v) THEN destroy_n(m, v.buf, 0, v.size)
              ELSE [m EXCEPT !.nd = @ + v.size, !.lv = TRUE]
    IN Res([m1 EXCEPT !.h = Deallocate(@, v.buf)], NoVec, FALSE, nullptr)

\* a Swap that exchanges the sizes and leaves the blocks where they are
SwapSizesOnly(v, other) ==
    [v |-> [v EXCEPT !.size = other.size], other |-> [other EXCEPT !.size = v.size]]

\* Vector::Swap(other) and the body of operator=(Vector&&): data_.Swap, std::swap(size_)
Swap(v, other) ==
    [v |-> [v EXCEPT !.buf = other.buf, !.cap = other.cap, !.size = other.size],
     other |-> [other EXCEPT !.buf = v.buf, !.cap = v.cap, !.size = v.size]]

\* std::copy_n(src, n, dst): element-wise copy assignment; the failAt-th throws
RECURSIVE AssignLoop(_, _, _, _, _, _)
AssignLoop(m, sb, soff, db, doff, n) ==
    IF n = 0 THEN m
    ELSE AssignLoop(AssignAt(m, db, doff, ValAt(m, sb, soff)), sb, soff + 1, db, doff + 1, n - 1)

copy_n(m, sb, soff, n, db, doff, failAt) ==
    IF failAt \in 1..n
    THEN [m |-> AssignLoop(m, sb, soff, db, doff, failAt - 1), err |-> TRUE]
    ELSE [m |-> AssignLoop(m, sb, soff, db, doff, n), err |-> FALSE]

\* a copy assignment whose slot-reuse path forgets size_ = new_size
CopyAssignKeepSize(m, v, rhs, k) ==
    IF rhs.size > v.cap
    THEN LET tmp == CopyCtor(m, rhs, k)
         IN IF tmp.err THEN Res(tmp.m, v, TRUE, nullptr)
            ELSE LET sw == Swap(v, tmp.v)
                     d == Dtor(tmp.m, sw.other)
                 IN Res(d.m, sw.v, FALSE, nullptr)
    ELSE IF rhs.size <= v.size
         THEN LET c == copy_n(m, rhs.buf, 0, rhs.size, v.buf, 0, k)
              IN IF c.err THEN Res(c.m, v, TRUE, nullptr)
                 ELSE Res(destroy_n(c.m, v.buf, rhs.size, v.size - rhs.size), v, FALSE, nullptr)
         ELSE LET c == copy_n(m, rhs.buf, 0, v.size, v.buf, 0, k)
              IN IF c.err THEN Res(c.m, v, TRUE, nullptr)
                 ELSE LET u == uninitialized_copy_n(c.m, rhs.buf, v.size, rhs.size - v.size,
                                                    v.buf, v.size, k - v.size)
                      IN Res(u.m, v, u.err, nullptr)

\* Vector::operator=(const Vector& rhs) for this != &rhs; k: which copy
\* (construction or assignment) throws
CopyAssign(m, v, rhs, k) ==
    IF rhs.size > v.cap
    THEN LET tmp == CopyCtor(m, rhs, k)
         IN IF tmp.err THEN Res(tmp.m, v, TRUE, nullptr)
            ELSE LET sw == Swap(v, tmp.v)
                     d == Dtor(tmp.m, sw.other)
                 IN Res(d.m, sw.v, FALSE, nullptr)
    ELSE IF rhs.size <= v.size
         THEN LET c == copy_n(m, rhs.buf, 0, rhs.size, v.buf, 0, k)
              IN IF c.err THEN Res(c.m, v, TRUE, nullptr)
                 ELSE Res(destroy_n(c.m, v.buf, rhs.size, v.size - rhs.size),
                          [v EXCEPT !.size = rhs.size], FALSE, nullptr)
         ELSE LET c == copy_n(m, rhs.buf, 0, v.size, v.buf, 0, k)
              IN IF c.err THEN Res(c.m, v, TRUE, nullptr)
                 ELSE LET u == uninitialized_copy_n(c.m, rhs.buf, v.size, rhs.size - v.size,
                                                    v.buf, v.size, k - v.size)
                      IN IF u.err THEN Res(u.m, v, TRUE, nullptr)
                         ELSE Res(u.m, [v EXCEPT !.size = rhs.size], FALSE, nullptr)

\* Vector::PushBack(const T&) / PushBack(T&&): EmplaceBack(std::move(value))
PushBack(m, v, x, k) == EmplaceBack(m, v, x, k)

\* Vector::Insert(pos, value): Emplace(pos, value)
Insert(m, v, offset, x, k, g) == Emplace(m, v, offset, x, k, g)

\* a move assignment that takes the block and the size of rhs and leaves rhs
\* empty, dropping what the receiver held
MoveAssignSteal(v, rhs) ==
    [v |-> [v EXCEPT !.buf = rhs.buf, !.cap = rhs.cap, !.size = rhs.size],
     other |-> [rhs EXCEPT !.buf = 0, !.cap = 0, !.size = 0]]

\* Vector::operator=(Vector&& rhs) for this != &rhs
MoveAssign(v, rhs) == Swap(v, rhs)

\* a move constructor that copies the members of other and leaves other as it is
MoveCtorShare(other) == [v |-> other, other |-> other]

\* Vector(Vector&& other): the members take their default initializers, then
\* *this = std::move(other)
MoveCtor(other) == MoveAssign(EmptyVec, other)

\* ---- the state machine ------------------------------------------------------
\* last: op, the call; vec and src, the Vectors it was made on; idx and val, the
\* position and the value passed to a call that returned (0 for a call that
\* threw; for a call whose argument is an element of the Vector itself, val is
\* the index of that element); fail, the construction that was made to throw ("none", "new": the new
\* element, "copy": a copy of an existing element, "value": a value construction,
\* "move": a move construction, "assign": a copy assignment); full, whether the
\* call had to grow the block; err, whether an exception left the call; abort,
\* whether an assert stopped the program; ret, the address returned; nc and nd,
\* the constructor and the destructor calls of T made by the call; lv, whether
\* a step of the call broke the slot lifetime discipline
NoCall ==
    [op |-> "none", vec |-> "A", src |-> "A", idx |-> 0, val |-> 0, fail |-> "none",
     full |-> FALSE, err |-> FALSE, abort |-> FALSE, ret |-> nullptr, nc |-> 0, nd |-> 0,
     lv |-> FALSE]

Call(op, n, src, idx, val, fail, full, r) ==
    [op |-> op, vec |-> n, src |-> src,
     idx |-> IF r.err THEN 0 ELSE idx, val |-> IF r.err THEN 0 ELSE val,
     fail |-> fail, full |-> full,
     err |-> r.err, abort |-> r.abort, ret |-> r.ret,
     nc |-> r.m.nc, nd |-> r.m.nd, lv |-> r.m.lv]

\* a program whose calls are not logged: last stays as it is
NoLog == [NoCall EXCEPT !.op = "off"]

\* the entry of the log a call leaves
Log(lbl) == IF last.op = "off" THEN last ELSE lbl

Init ==
    /\ heap = [b \in Blocks |-> FreeBlock]
    /\ vecs = [n \in Names |-> IF n = "A" THEN EmptyVec ELSE NoVec]
    /\ policy \in {"move", "copy"}
    /\ run = "ok"
    /\ last = NoCall
    /\ ref = <<>>
    /\ twin = "none"
    /\ raws = [n \in RawNames |-> NoRaw]

\* the same objects, in a program whose calls are not logged
InitNoLog ==
    /\ heap = [b \in Blocks |-> FreeBlock]
    /\ vecs = [n \in Names |-> IF n = "A" THEN EmptyVec ELSE NoVec]
    /\ policy \in {"move", "copy"}
    /\ run = "ok"
    /\ last = NoLog
    /\ ref = <<>>
    /\ twin = "none"
    /\ raws = [n \in RawNames |-> NoRaw]

Ready(n) == run = "ok" /\ vecs[n].alive
Full(v) == Capacity(v) <= v.size

\* the constructions of a relocation that can throw: the copies of the elements
Copies(v) == IF policy = "copy" THEN v.size ELSE 0

\* what an uninitialized slot may be found to hold
Garbage(v, offset) ==
    IF policy = "copy" /\ Full(v) /\ offset < v.size THEN Vals \cup {DefaultVal}
    ELSE {DefaultVal}

\* which construction the k-th one of a call is
GrowFail(k) == IF k = 0 THEN "none" ELSE IF k = 1 THEN "new" ELSE "copy"
SpareFail(k) == IF k = 0 THEN "none" ELSE IF k = 1 THEN "new" ELSE "move"
ResizeFail(k, copies) == IF k = 0 THEN "none" ELSE IF k <= copies THEN "copy" ELSE "value"

Commit(n, r, lbl) ==
    /\ heap' = r.m.h
    /\ vecs' = [vecs EXCEPT ![n] = r.v]
    /\ run' = IF r.abort THEN "aborted" ELSE IF r.dangling THEN "ub" ELSE "ok"
    /\ last' = Log(lbl)
    /\ UNCHANGED <<policy, raws>>

\* a call on the elements of one Vector leaves the twin relation as it is
SameTwin == UNCHANGED twin
\* a whole-object call ends it
NoTwin == twin' = "none"

\* the reference list follows the PushBack and PopBack calls on vector A
Track(n, r, s) == ref' = IF n = "A" /\ ~r.err THEN s ELSE ref

\* any other call starts the reference list afresh from what A then holds
Rebase == ref' = Elems(heap', vecs'["A"])

CallPushBack(n, x, k, lim) ==
    /\ Ready(n)
    /\ Full(vecs[n]) => GrowCapacity(Capacity(vecs[n])) <= lim
    /\ k <= 1 + (IF Full(vecs[n]) THEN Copies(vecs[n]) ELSE 0)
    /\ LET r == PushBack(Start(heap), vecs[n], ByValue(x), k)
       IN /\ Commit(n, r, Call("PushBack", n, n, vecs[n].size, x, GrowFail(k),
                               Full(vecs[n]), r))
          /\ Track(n, r, Append(ref, x))
    /\ SameTwin

CallPopBack(n) ==
    /\ Ready(n)
    /\ vecs[n].size > 0
    /\ LET r == PopBack(Start(heap), vecs[n])
       IN /\ Commit(n, r, Call("PopBack", n, n, vecs[n].size - 1, 0, "none", FALSE, r))
          /\ Track(n, r, Front(ref))
    /\ SameTwin

CallInsert(n, i, x, k, lim) ==
    /\ Ready(n)
    /\ i <= vecs[n].size
    /\ Full(vecs[n]) => GrowCapacity(Capacity(vecs[n])) <= lim
    /\ k <= IF Full(vecs[n]) THEN 1 + Copies(vecs[n])
            ELSE IF policy = "copy" THEN 2 ELSE 1
    /\ \E g \in Garbage(vecs[n], i) :
         LET r == Insert(Start(heap), vecs[n], i, ByValue(x), k, g)
         IN /\ Commit(n, r, Call("Insert", n, n, i, x,
                                 IF Full(vecs[n]) THEN GrowFail(k) ELSE SpareFail(k),
                                 Full(vecs[n]), r))
            /\ Rebase
    /\ SameTwin

\* n.PushBack(n[i]); the argument refers to element i of n itself.  The val of
\* the log entry of a self-referring call is the index i
CallPushBackSelf(n, i, lim) ==
    /\ Ready(n)
    /\ i < vecs[n].size
    /\ Full(vecs[n]) => GrowCapacity(Capacity(vecs[n])) <= lim
    /\ LET r == PushBack(Start(heap), vecs[n], BySelf(i), 0)
       IN /\ Commit(n, r, Call("PushBackSelf", n, n, vecs[n].size, i, "none",
                               Full(vecs[n]), r))
          /\ Rebase
    /\ SameTwin

\* n.Insert(n.begin() + pos, n[i]);
CallInsertSelf(n, pos, i, lim) ==
    /\ Ready(n)
    /\ pos <= vecs[n].size
    /\ i < vecs[n].size
    /\ Full(vecs[n]) => GrowCapacity(Capacity(vecs[n])) <= lim
    /\ \E g \in Garbage(vecs[n], pos) :
         LET r == Insert(Start(heap), vecs[n], pos, BySelf(i), 0, g)
         IN /\ Commit(n, r, Call("InsertSelf", n, n, pos, i, "none", Full(vecs[n]), r))
            /\ Rebase
    /\ SameTwin

CallErase(n, j) ==
    /\ Ready(n)
    /\ j < vecs[n].size
    /\ \E asserts \in (IF vecs[n].size = 1 THEN BOOLEAN ELSE {TRUE}) :
         LET r == Erase(Start(heap), vecs[n], j, asserts)
         IN /\ Commit(n, r, Call("Erase", n, n, j, 0, "none", FALSE, r))
            /\ Rebase
    /\ SameTwin

CallResize(n, size, k, lim) ==
    /\ Ready(n)
    /\ size <= lim
    /\ k <= IF size < vecs[n].size THEN 0
            ELSE (IF size > vecs[n].cap THEN Copies(vecs[n]) ELSE 0) + (size - vecs[n].size)
    /\ LET r == Resize(Start(heap), vecs[n], size, k)
       IN /\ Commit(n, r, Call("Resize", n, n, size, 0,
                               ResizeFail(k, IF size > vecs[n].cap THEN Copies(vecs[n]) ELSE 0),
                               size > vecs[n].cap, r))
          /\ Rebase
    /\ SameTwin

CallReserve(n, c, k, lim) ==
    /\ Ready(n)
    /\ c <= lim
    /\ k <= IF c > vecs[n].cap THEN Copies(vecs[n]) ELSE 0
    /\ LET r == Reserve(Start(heap), vecs[n], c, k)
       IN /\ Commit(n, r, Call("Reserve", n, n, c, 0, IF k = 0 THEN "none" ELSE "copy",
                               c > vecs[n].cap, r))
          /\ Rebase
    /\ SameTwin

CallOverwrite(n, i, x) ==
    /\ Ready(n)
    /\ i < vecs[n].size
    /\ LET r == Overwrite(Start(heap), vecs[n], i, x)
       IN /\ Commit(n, r, Call("Overwrite", n, n, i, x, "none", FALSE, r))
          /\ Rebase
    /\ SameTwin

\* both Vectors of a call on two: n takes r.v, o takes other
Commit2(n, r, o, other, lbl) ==
    /\ heap' = r.m.h
    /\ vecs' = IF n = o THEN [vecs EXCEPT ![n] = r.v]
               ELSE [vecs EXCEPT ![n] = r.v, ![o] = other]
    /\ run' = "ok"
    /\ last' = Log(lbl)
    /\ UNCHANGED <<policy, raws>>

\* Vector n; (default constructor)
CallDefaultCtor(n) ==
    /\ run = "ok" /\ ~vecs[n].alive
    /\ Commit(n, Res(Start(heap), EmptyVec, FALSE, nullptr),
              Call("DefaultCtor", n, n, 0, 0, "none", FALSE, Res(Start(heap), EmptyVec, FALSE, nullptr)))
    /\ Rebase
    /\ NoTwin

\* Vector n(size);
CallSizedCtor(n, size, k, lim) ==
    /\ run = "ok" /\ ~vecs[n].alive
    /\ size <= lim /\ k <= size
    /\ LET r == SizedCtor(Start(heap), size, k)
       IN /\ Commit(n, r, Call("SizedCtor", n, n, size, 0, IF k = 0 THEN "none" ELSE "value",
                               size > 0, r))
          /\ Rebase
    /\ NoTwin

\* Vector n(o);
CallCopyCtor(n, o, k) ==
    /\ run = "ok" /\ ~vecs[n].alive /\ vecs[o].alive
    /\ k <= vecs[o].size
    /\ LET r == CopyCtor(Start(heap), vecs[o], k)
       IN /\ Commit(n, r, Call("CopyCtor", n, o, 0, 0, IF k = 0 THEN "none" ELSE "copy",
                               vecs[o].size > 0, r))
          /\ Rebase
    /\ NoTwin

\* Vector n(std::move(o));
CallMoveCtor(n, o) ==
    /\ run = "ok" /\ ~vecs[n].alive /\ vecs[o].alive
    /\ LET sw == MoveCtor(vecs[o])
           r == Res(Start(heap), sw.v, FALSE, nullptr)
       IN /\ Commit2(n, r, o, sw.other, Call("MoveCtor", n, o, 0, 0, "none", FALSE, r))
          /\ Rebase
    /\ NoTwin

\* the end of n's lifetime
CallDtor(n) ==
    /\ Ready(n)
    /\ LET r == Dtor(Start(heap), vecs[n])
       IN /\ Commit(n, r, Call("Dtor", n, n, 0, 0, "none", FALSE, r))
          /\ Rebase
    /\ NoTwin

\* the end of n's lifetime when Emplace has left it a released block
CallDtorReleased(n) ==
    /\ run = "ub" /\ vecs[n].alive /\ ~Owned(heap, vecs[n])
    /\ LET r == Dtor(Start(heap), vecs[n])
       IN /\ heap' = r.m.h
          /\ vecs' = [vecs EXCEPT ![n] = r.v]
          /\ run' \in AfterRelease(r.m.h)
          /\ last' = Log(Call("Dtor", n, n, 0, 0, "none", FALSE, r))
          /\ UNCHANGED <<policy, raws>>
          /\ Rebase
    /\ NoTwin

\* n = o; (copy assignment; this == &rhs does nothing)
CallCopyAssign(n, o, k) ==
    /\ Ready(n) /\ Ready(o)
    /\ k <= IF n = o THEN 0 ELSE vecs[o].size
    /\ LET r == IF n = o THEN Res(Start(heap), vecs[n], FALSE, nullptr)
                ELSE CopyAssign(Start(heap), vecs[n], vecs[o], k)
       IN /\ Commit(n, r, Call("CopyAssign", n, o, 0, 0, IF k = 0 THEN "none" ELSE "copy",
                               vecs[o].size > vecs[n].cap, r))
          /\ Rebase
    /\ twin' = IF n = o \/ k # 0 THEN "none" ELSE n \o o

\* n = std::move(o); (move assignment; this == &rhs does nothing)
CallMoveAssign(n, o) ==
    /\ Ready(n) /\ Ready(o)
    /\ LET sw == IF n = o THEN [v |-> vecs[n], other |-> vecs[o]] ELSE MoveAssign(vecs[n], vecs[o])
           r == Res(Start(heap), sw.v, FALSE, nullptr)
       IN /\ Commit2(n, r, o, sw.other, Call("MoveAssign", n, o, 0, 0, "none", FALSE, r))
          /\ Rebase
    /\ NoTwin

\* n.Swap(o);
CallSwap(n, o) ==
    /\ Ready(n) /\ Ready(o)
    /\ LET sw == Swap(vecs[n], vecs[o])
           r == Res(Start(heap), sw.v, FALSE, nullptr)
       IN /\ Commit2(n, r, o, sw.other, Call("Swap", n, o, 0, 0, "none", FALSE, r))
          /\ Rebase
    /\ NoTwin

\* ---- calls on RawMemory objects ---------------------------------------------
CommitRaw(h, n, r, o, other, lbl) ==
    /\ heap' = h
    /\ raws' = IF n = o THEN [raws EXCEPT ![n] = r] ELSE [raws EXCEPT ![n] = r, ![o] = other]
    /\ run' \in AfterRelease(h)
    /\ last' = Log(lbl)
    /\ UNCHANGED <<vecs, policy, ref, twin>>

RawCall(op, n, o, c, h) ==
    Call(op, n, o, c, 0, "none", FALSE, Res(Start(h), NoVec, FALSE, nullptr))

\* RawMemory<T> n;
CallRawDefaultCtor(n) ==
    /\ run = "ok" /\ ~raws[n].alive
    /\ CommitRaw(heap, n, EmptyRaw, n, EmptyRaw, RawCall("RawDefaultCtor", n, n, 0, heap))

\* RawMemory<T> n(c);
CallRawCtor(n, c) ==
    /\ run = "ok" /\ ~raws[n].alive
    /\ c = 0 \/ HasFree(heap)
    /\ LET a == RawCtor(heap, c)
       IN CommitRaw(a.h, n, a.r, n, a.r, RawCall("RawCtor", n, n, c, a.h))

\* RawMemory<T> n(std::move(o));
CallRawMoveCtor(n, o) ==
    /\ run = "ok" /\ ~raws[n].alive /\ raws[o].alive
    /\ LET mv == RawMoveCtor(raws[o])
       IN CommitRaw(heap, n, mv.r, o, mv.other, RawCall("RawMoveCtor", n, o, 0, heap))

\* n = std::move(o);
CallRawMoveAssign(n, o) ==
    /\ run = "ok" /\ raws[n].alive /\ raws[o].alive
    /\ LET mv == RawMoveAssign(raws[n], raws[o])
       IN CommitRaw(heap, n, mv.r, o, mv.other, RawCall("RawMoveAssign", n, o, 0, heap))

\* n.Swap(o);
CallRawSwap(n, o) ==
    /\ run = "ok" /\ raws[n].alive /\ raws[o].alive
    /\ LET sw == RawSwap(raws[n], raws[o])
       IN CommitRaw(heap, n, sw.r, o, sw.other, RawCall("RawSwap", n, o, 0, heap))

\* the end of n's lifetime
CallRawDtor(n) ==
    /\ run = "ok" /\ raws[n].alive
    /\ LET h == RawDtor(heap, raws[n])
       IN CommitRaw(h, n, NoRaw, n, NoRaw, RawCall("RawDtor", n, n, 0, h))

\* ---- specifications ---------------------------------------------------------
\* PushBack and PopBack alone, on one Vector
NextPP ==
    \/ \E x \in Vals, k \in 0..(MaxCap + 1) : CallPushBack("A", x, k, MaxCap)
    \/ CallPopBack("A")

SpecPP == Init /\ [][NextPP]_vars

\* Insert and Erase alone, on one Vector
NextIE ==
    \/ \E i \in 0..MaxCap, x \in Vals, k \in 0..(MaxCap + 1) : CallInsert("A", i, x, k, MaxCap)
    \/ \E j \in 0..MaxCap : CallErase("A", j)

SpecIE == Init /\ [][NextIE]_vars

\* EmplaceBack (through PushBack), Resize and PopBack on one Vector
NextEB ==
    \/ \E x \in Vals, k \in 0..(MaxCap + 1) : CallPushBack("A", x, k, MaxCap)
    \/ \E size \in 0..MaxCap, k \in 0..(MaxCap + 1) : CallResize("A", size, k, MaxCap)
    \/ CallPopBack("A")

SpecEB == Init /\ [][NextEB]_vars

\* every operation of one Vector
Next ==
    \/ \E x \in Vals, k \in 0..(MaxCap + 1) : CallPushBack("A", x, k, MaxCap)
    \/ CallPopBack("A")
    \/ \E i \in 0..MaxCap, x \in Vals, k \in 0..(MaxCap + 1) : CallInsert("A", i, x, k, MaxCap)
    \/ \E j \in 0..MaxCap : CallErase("A", j)
    \/ \E size \in 0..MaxCap, k \in 0..(MaxCap + 1) : CallResize("A", size, k, MaxCap)
    \/ \E c \in 0..MaxCap, k \in 0..(MaxCap + 1) : CallReserve("A", c, k, MaxCap)
    \/ \E i \in 0..MaxCap, x \in Vals : CallOverwrite("A", i, x)

Spec == Init /\ [][Next]_vars

\* two Vectors: construction, destruction, assignment, and the calls that
\* change one of them
NextTwo ==
    \/ \E n \in Names, x \in Vals, k \in 0..(MaxCapTwo + 1) : CallPushBack(n, x, k, MaxCapTwo)
    \/ \E n \in Names : CallPopBack(n)
    \/ \E n \in Names, j \in 0..MaxCapTwo : CallErase(n, j)
    \/ \E n \in Names, i \in 0..MaxCapTwo, x \in Vals : CallOverwrite(n, i, x)
    \/ \E n \in Names : CallDefaultCtor(n)
    \/ \E n \in Names, o \in Names, k \in 0..MaxCapTwo : CallCopyCtor(n, o, k)
    \/ \E n \in Names, o \in Names : CallMoveCtor(n, o)
    \/ \E n \in Names : CallDtor(n)
    \/ \E n \in Names, o \in Names, k \in 0..MaxCapTwo : CallCopyAssign(n, o, k)
    \/ \E n \in Names, o \in Names : CallMoveAssign(n, o)

SpecTwo == Init /\ [][NextTwo]_vars

\* RawMemory objects alone
NextRaw ==
    \/ \E n \in RawNames : CallRawDefaultCtor(n)
    \/ \E n \in RawNames, c \in 0..MaxCapTwo : CallRawCtor(n, c)
    \/ \E n \in RawNames, o \in RawNames : CallRawMoveCtor(n, o)
    \/ \E n \in RawNames, o \in RawNames : CallRawMoveAssign(n, o)
    \/ \E n \in RawNames, o \in RawNames : CallRawSwap(n, o)
    \/ \E n \in RawNames : CallRawDtor(n)

SpecRaw == Init /\ [][NextRaw]_vars

\* Reserve, Resize, PushBack and PopBack on one Vector
NextRS ==
    \/ \E c \in 0..MaxCap, k \in 0..MaxCap : CallReserve("A", c, k, MaxCap)
    \/ \E size \in 0..MaxCap, k \in 0..(MaxCap + 1) : CallResize("A", size, k, MaxCap)
    \/ \E x \in Vals, k \in 0..(MaxCap + 1) : CallPushBack("A", x, k, MaxCap)
    \/ CallPopBack("A")

SpecRS == Init /\ [][NextRS]_vars

\* Erase, PopBack, Resize and PushBack on one Vector
NextEP ==
    \/ \E j \in 0..MaxCap : CallErase("A", j)
    \/ CallPopBack("A")
    \/ \E size \in 0..MaxCap, k \in 0..(MaxCap + 1) : CallResize("A", size, k, MaxCap)
    \/ \E x \in Vals, k \in 0..(MaxCap + 1) : CallPushBack("A", x, k, MaxCap)

SpecEP == Init /\ [][NextEP]_vars

\* every public operation, unlogged: the calls that change one Vector are made
\* on A, the constructors, the destructor, the assignments and Swap on A and B
NextAll ==
    \/ \E x \in Vals, k \in 0..(MaxCapTwo + 1) : CallPushBack("A", x, k, MaxCapTwo)
    \/ CallPopBack("A")
    \/ \E i \in 0..MaxCapTwo, x \in Vals, k \in 0..(MaxCapTwo + 1) :
         CallInsert("A", i, x, k, MaxCapTwo)
    \/ \E j \in 0..MaxCapTwo : CallErase("A", j)
    \/ \E size \in 0..MaxCapTwo, k \in 0..(MaxCapTwo + 1) :
         CallResize("A", size, k, MaxCapTwo)
    \/ \E c \in 0..MaxCapTwo, k \in 0..MaxCapTwo : CallReserve("A", c, k, MaxCapTwo)
    \/ \E n \in Names : CallDefaultCtor(n)
    \/ \E n \in Names, size \in 0..MaxCapTwo, k \in 0..MaxCapTwo :
         CallSizedCtor(n, size, k, MaxCapTwo)
    \/ \E n \in Names, o \in Names, k \in 0..MaxCapTwo : CallCopyCtor(n, o, k)
    \/ \E n \in Names, o \in Names : CallMoveCtor(n, o)
    \/ \E n \in Names : CallDtor(n)
    \/ \E n \in Names, o \in Names, k \in 0..MaxCapTwo : CallCopyAssign(n, o, k)
    \/ \E n \in Names, o \in Names : CallMoveAssign(n, o)
    \/ \E n \in Names, o \in Names : CallSwap(n, o)

SpecAll == InitNoLog /\ [][NextAll]_vars

\* insertions alone, on one default-constructed Vector
NextGrow ==
    \/ \E x \in Vals, k \in 0..(MaxCap + 1) : CallPushBack("A", x, k, MaxCap)
    \/ \E i \in 0..MaxCap, x \in Vals, k \in 0..(MaxCap + 1) : CallInsert("A", i, x, k, MaxCap)

SpecGrow == Init /\ [][NextGrow]_vars

\* insertions, removal and the lifetime of one Vector, up to its destructor
NextRel ==
    \/ \E x \in Vals, k \in 0..(MaxCap + 1) : CallPushBack("A", x, k, MaxCap)
    \/ \E i \in 0..MaxCap, x \in Vals, k \in 0..(MaxCap + 1) : CallInsert("A", i, x, k, MaxCap)
    \/ CallPopBack("A")
    \/ CallDtor("A")
    \/ CallDtorReleased("A")
    \/ CallDefaultCtor("A")

SpecRel == Init /\ [][NextRel]_vars

\* insertions whose argument is an element of the Vector itself, with PushBack
\* and PopBack to fill the Vector and to leave spare capacity
NextSelf ==
    \/ \E i \in 0..MaxCap : CallPushBackSelf("A", i, MaxCap)
    \/ \E pos \in 0..MaxCap, i \in 0..MaxCap : CallInsertSelf("A", pos, i, MaxCap)
    \/ \E x \in Vals : CallPushBack("A", x, 0, MaxCap)
    \/ CallPopBack("A")

SpecSelf == Init /\ [][NextSelf]_vars

\* ---- claims -------------------------------------------------------------------
VecA == vecs["A"]
VecB == vecs["B"]
ElemsA == Elems(heap, VecA)
ElemsB == Elems(heap, VecB)

\* C1: after every sequence of PushBack and PopBack calls on an initially empty
\* Vector, the elements read by index 0..Size()-1 are, in order, the reference
\* list built by the same appends and remove-last steps, and Size() is its length
C1_RefinesList ==
    /\ Size(VecA) = Len(ref)
    /\ ElemsA = ref

\* C1 witness: a PushBack that had to grow a block of two elements has returned
C1_Witness ==
    /\ last.op = "PushBack" /\ last.full /\ ~last.err
    /\ Size(VecA) = 3
    /\ ref = <<1, 2, 1>>
    /\ ElemsA = ref

\* C2: for an element type relocated by move, a call Insert(begin()+i, v) or
\* Erase(begin()+j) returns, and leaves the element sequence the reference list
\* has after inserting v at index i / removing index j: Size() changes by +1 /
\* -1 and the other elements keep their order, with or without growth
C2_InsertEraseAsList ==
    [][(policy = "move" /\ ~last'.err) =>
         /\ last'.op = "Insert" =>
              /\ ~last'.abort
              /\ ElemsA' = InsertAt(ElemsA, last'.idx, last'.val)
              /\ Size(VecA') = Size(VecA) + 1
         /\ last'.op = "Erase" =>
              /\ ~last'.abort
              /\ ElemsA' = RemoveAt(ElemsA, last'.idx)
              /\ Size(VecA') = Size(VecA) - 1]_vars

\* C2, the part the code keeps: the same statement for every call that an
\* assert does not stop (every Insert, and every Erase that leaves an element
\* behind or runs in a build without asserts)
C2_InsertEraseAsListUnlessAborted ==
    [][(policy = "move" /\ ~last'.err /\ ~last'.abort) =>
         /\ last'.op = "Insert" =>
              /\ ElemsA' = InsertAt(ElemsA, last'.idx, last'.val)
              /\ Size(VecA') = Size(VecA) + 1
         /\ last'.op = "Erase" =>
              /\ ElemsA' = RemoveAt(ElemsA, last'.idx)
              /\ Size(VecA') = Size(VecA) - 1]_vars

\* C3: Emplace(begin()+i, v) on a full Vector holding s leaves s[0..i), v,
\* s[i..n) and returns the address of index i, which holds v, for an element
\* type relocated by move and for one relocated by copy
C3_EmplaceFullKeepsAll ==
    [][(last'.op = "Insert" /\ last'.full /\ last'.fail = "none") =>
         /\ ElemsA' = InsertAt(ElemsA, last'.idx, last'.val)
         /\ last'.ret = Addr(VecA'.buf, last'.idx)
         /\ ElemsA'[last'.idx + 1] = last'.val]_vars

\* C3, the part the code keeps: the statement for an element type relocated by
\* move, and for a copy-relocated one when the position is end()
C3_EmplaceFullMoveOrAtEnd ==
    [][(last'.op = "Insert" /\ last'.full /\ last'.fail = "none"
          /\ (policy = "move" \/ last'.idx = Size(VecA))) =>
         /\ ElemsA' = InsertAt(ElemsA, last'.idx, last'.val)
         /\ last'.ret = Addr(VecA'.buf, last'.idx)
         /\ ElemsA'[last'.idx + 1] = last'.val]_vars

\* C4: when a copy of an existing element throws while Emplace relocates the
\* elements of a full Vector into the new block, the exception reaches the
\* caller and the Vector keeps its size, its capacity, its block and its elements
C4_EmplaceCopyFailureRollsBack ==
    [][(last'.op = "Insert" /\ last'.full /\ last'.fail = "copy") =>
         /\ last'.err
         /\ VecA' = VecA
         /\ ElemsA' = ElemsA
         /\ Owned(heap', VecA')
         /\ heap'[VecA.buf] = heap[VecA.buf]]_vars

\* C7: Erase(begin()+j) returns the address of the element now at index j, which
\* is end() when the last element was removed, for every Size() >= 1
C7_EraseReturnsPosition ==
    last.op = "Erase" =>
        /\ ~last.abort
        /\ last.ret = begin(VecA) + last.idx

\* C7, the part the code keeps: the statement for an Erase that leaves at least
\* one element behind
C7_EraseReturnsPositionNonEmpty ==
    (last.op = "Erase" /\ Size(VecA) > 0) =>
        /\ ~last.abort
        /\ last.ret = begin(VecA) + last.idx

\* C5: when a construction throws during EmplaceBack (the new element, with or
\* without spare capacity, or a copy of an existing element during growth) or
\* during a growing Resize (a value construction of a new slot, or a copy made
\* by Reserve), Size() and the elements 0..Size()-1 are what they were before
C5_FailedCallKeepsElements ==
    [][(last'.op \in {"PushBack", "Resize"} /\ last'.err) =>
         /\ Size(VecA') = Size(VecA)
         /\ ElemsA' = ElemsA]_vars

\* C5 witness: Resize(4) on <<1, 2>> with capacity 2 has thrown from a value
\* construction after Reserve had moved the elements to a block of 4
C5_Witness ==
    /\ last.op = "Resize" /\ last.err /\ last.fail = "value" /\ last.full
    /\ Capacity(VecA) = 4
    /\ ElemsA = <<1, 2>>

\* C6: when a call throws, every element it constructed has been destroyed
\* before the exception reaches the caller
C6_FailedCallLeavesNoElement ==
    last.err => last.nc = last.nd

\* C6, the part the code keeps: the statement for every failure but a copy that
\* throws while EmplaceBack relocates the elements of a full Vector
C6_FailedCallLeavesNoElementButGrowth ==
    (last.err /\ ~(last.op = "PushBack" /\ last.full /\ last.fail = "copy")) =>
        last.nc = last.nd

\* C8 as claimed: after B = std::move(A) with A and B distinct, B holds what A
\* held and A is empty (Size() == 0 and begin() == end()), whatever B held
C8_MoveAssignEmptiesSource ==
    [][(last'.op = "MoveAssign" /\ last'.vec # last'.src) =>
         /\ Elems(heap', vecs'[last'.vec]) = Elems(heap, vecs[last'.src])
         /\ Size(vecs'[last'.src]) = 0
         /\ begin(vecs'[last'.src]) = end(vecs'[last'.src])]_vars

\* C8 as amended: after B = std::move(A) with A and B distinct, B has the
\* elements, the size and the capacity A had, and A has those B had: A is empty
\* (Size() == 0 and begin() == end()) exactly when B was empty before the call
C8_MoveAssignExchanges ==
    [][(last'.op = "MoveAssign" /\ last'.vec # last'.src) =>
         /\ Elems(heap', vecs'[last'.vec]) = Elems(heap, vecs[last'.src])
         /\ Size(vecs'[last'.vec]) = Size(vecs[last'.src])
         /\ Capacity(vecs'[last'.vec]) = Capacity(vecs[last'.src])
         /\ Elems(heap', vecs'[last'.src]) = Elems(heap, vecs[last'.vec])
         /\ Size(vecs'[last'.src]) = Size(vecs[last'.vec])
         /\ Capacity(vecs'[last'.src]) = Capacity(vecs[last'.vec])
         /\ (Size(vecs'[last'.src]) = 0 <=> Size(vecs[last'.vec]) = 0)
         /\ (Size(vecs[last'.vec]) = 0 =>
               begin(vecs'[last'.src]) = end(vecs'[last'.src]))]_vars

\* C8 witness: B = std::move(A) has run with A = <<1, 2>> and B = <<2>>
C8_Witness ==
    /\ last.op = "MoveAssign" /\ last.vec = "B" /\ last.src = "A"
    /\ ElemsB = <<1, 2>>
    /\ ElemsA = <<2>>

\* C9: after Vector B(std::move(A)), B has the size, the capacity, the block and
\* the elements A had, A is empty and owns no storage (Size() == 0,
\* Capacity() == 0, null block), and no element was constructed or destroyed
C9_MoveCtorTransfers ==
    [][last'.op = "MoveCtor" =>
         /\ vecs'[last'.vec] = vecs[last'.src]
         /\ Elems(heap', vecs'[last'.vec]) = Elems(heap, vecs[last'.src])
         /\ vecs'[last'.src] = EmptyVec
         /\ begin(vecs'[last'.src]) = end(vecs'[last'.src])
         /\ heap' = heap
         /\ last'.nc = 0 /\ last'.nd = 0]_vars

\* C9 witness: Vector B(std::move(A)) has run with A = <<1, 2>>
C9_Witness ==
    /\ last.op = "MoveCtor" /\ last.vec = "B" /\ last.src = "A"
    /\ ElemsB = <<1, 2>>
    /\ Capacity(VecB) = 2
    /\ VecA = EmptyVec

\* the calls that change the elements of one Vector
Mutations == {"PushBack", "PopBack", "Erase", "Overwrite"}

\* C10: after B = A (A and B distinct) B has A's size and A's elements in order,
\* A is unchanged, and a later PushBack, PopBack, Erase or element overwrite on
\* A leaves the size and the elements of B as they are (and so for A = B)
C10_CopyAssignEqualIndependent ==
    [][/\ (last'.op = "CopyAssign" /\ ~last'.err /\ last'.vec # last'.src) =>
            /\ Elems(heap', vecs'[last'.vec]) = Elems(heap, vecs[last'.src])
            /\ Size(vecs'[last'.vec]) = Size(vecs[last'.src])
            /\ Elems(heap', vecs'[last'.src]) = Elems(heap, vecs[last'.src])
       /\ (twin = "BA" /\ last'.op \in Mutations /\ last'.vec = "A") =>
            /\ ElemsB' = ElemsB
            /\ Size(VecB') = Size(VecB)
       /\ (twin = "AB" /\ last'.op \in Mutations /\ last'.vec = "B") =>
            /\ ElemsA' = ElemsA
            /\ Size(VecA') = Size(VecA)]_vars

\* C10 witness: B was copy-assigned from A = <<1, 2>> and A has since lost its
\* first element to Erase
C10_Witness ==
    /\ twin = "BA"
    /\ last.op = "Erase" /\ last.vec = "A" /\ ~last.abort
    /\ ElemsB = <<1, 2>>
    /\ ElemsA = <<2>>
\* C11: when a copy of an element throws during the copy assignment B = A, B
\* keeps the size, the capacity and the elements it had, on the path through a
\* temporary copy (A larger than B's capacity) and on the slot-reuse path
C11_FailedCopyAssignKeepsReceiver ==
    [][(last'.op = "CopyAssign" /\ last'.err) =>
         /\ Size(vecs'[last'.vec]) = Size(vecs[last'.vec])
         /\ Capacity(vecs'[last'.vec]) = Capacity(vecs[last'.vec])
         /\ Elems(heap', vecs'[last'.vec]) = Elems(heap, vecs[last'.vec])]_vars

\* C11, the part the code keeps: the statement for the path through a temporary
\* copy; on the slot-reuse path size and capacity are kept, the elements are not
C11_FailedCopyAssignKeepsReceiverTemporary ==
    [][(last'.op = "CopyAssign" /\ last'.err) =>
         /\ Size(vecs'[last'.vec]) = Size(vecs[last'.vec])
         /\ Capacity(vecs'[last'.vec]) = Capacity(vecs[last'.vec])
         /\ last'.full =>
              Elems(heap', vecs'[last'.vec]) = Elems(heap, vecs[last'.vec])]_vars
RawP == raws["P"]
RawQ == raws["Q"]

\* C12: after a RawMemory is move-constructed or move-assigned from another one,
\* the destination holds the region and the capacity the source had, the source
\* is empty (null address, capacity 0), and no region has two owners
C12_RawMoveEmptiesSource ==
    [][(last'.op \in {"RawMoveCtor", "RawMoveAssign"} /\ last'.vec # last'.src) =>
         /\ raws'[last'.vec].buf = raws[last'.src].buf
         /\ raws'[last'.vec].cap = raws[last'.src].cap
         /\ raws'[last'.src].buf = nullptr
         /\ raws'[last'.src].cap = 0
         /\ ~(RawP'.alive /\ RawQ'.alive /\ RawP'.buf # nullptr /\ RawP'.buf = RawQ'.buf)]_vars

\* C12, the part the code keeps: the destination holds the region and the
\* capacity the source had
C12_RawMoveTakesRegion ==
    [][(last'.op \in {"RawMoveCtor", "RawMoveAssign"} /\ last'.vec # last'.src) =>
         /\ raws'[last'.vec].buf = raws[last'.src].buf
         /\ raws'[last'.vec].cap = raws[last'.src].cap]_vars
\* C13: a Reserve(n) that returns changes nothing when n <= Capacity() (capacity,
\* size, block and elements are as before), and when n > Capacity() it leaves
\* Capacity() == n with Size() and the elements as they were before the call
C13_ReserveExactOrNothing ==
    [][(last'.op = "Reserve" /\ ~last'.err) =>
         IF last'.idx <= Capacity(VecA)
         THEN /\ VecA' = VecA
              /\ heap' = heap
         ELSE /\ Capacity(VecA') = last'.idx
              /\ Size(VecA') = Size(VecA)
              /\ ElemsA' = ElemsA]_vars

\* C13 witness: Reserve(3) has returned on <<1, 2>> with capacity 2
C13_Witness ==
    /\ last.op = "Reserve" /\ ~last.err /\ last.full
    /\ last.idx = 3
    /\ Capacity(VecA) = 3
    /\ ElemsA = <<1, 2>>
\* C14: Erase, PopBack and Resize(n) with n <= Size() leave Capacity() (and the
\* block) as it was before the call; Size() goes down by 1, by 1, and to n
C14_ShrinkKeepsCapacity ==
    [][/\ last'.op \in {"Erase", "PopBack"} =>
            /\ Capacity(VecA') = Capacity(VecA)
            /\ VecA'.buf = VecA.buf
            /\ Size(VecA') = Size(VecA) - 1
       /\ (last'.op = "Resize" /\ ~last'.err /\ last'.idx <= Size(VecA)) =>
            /\ Capacity(VecA') = Capacity(VecA)
            /\ VecA'.buf = VecA.buf
            /\ Size(VecA') = last'.idx]_vars

\* C14 witness: Resize(1) has left one element in a block of capacity 4
C14_Witness ==
    /\ last.op = "Resize" /\ ~last.err /\ ~last.full
    /\ last.idx = 1
    /\ Size(VecA) = 1
    /\ Capacity(VecA) = 4
\* C15: in every state reached by the public operations called within their
\* preconditions (constructors, PushBack, PopBack, Insert, Erase, Reserve,
\* Resize, copy and move assignment, Swap, with and without a construction that
\* throws), every Vector has 0 <= Size() <= Capacity()
C15_SizeWithinCapacity ==
    \A n \in Names :
        vecs[n].alive => (0 <= Size(vecs[n]) /\ Size(vecs[n]) <= Capacity(vecs[n]))

\* C15 witness: A is full with <<1, 2>> while B holds one element in a block of
\* capacity 2
C15_Witness ==
    /\ VecA.alive /\ VecB.alive
    /\ ElemsA = <<1, 2>> /\ Capacity(VecA) = 2
    /\ Size(VecB) = 1 /\ Capacity(VecB) = 2
\* exactly the slots [0, Size()) of v's block hold a live element
LiveExactly(h, v) ==
    IF v.buf = 0 THEN v.size = 0
    ELSE /\ h[v.buf].alloc
         /\ Len(h[v.buf].slots) = v.cap
         /\ \A i \in 1..v.cap : h[v.buf].slots[i].st = (IF i <= v.size THEN "l" ELSE "u")

\* C16: no step of a call constructs into a live slot, or assigns to, reads from
\* or destroys an uninitialized one, and between calls exactly the slots
\* [0, Size()) are live; in particular for Emplace before end() with spare capacity
C16_SlotLifetime ==
    /\ ~last.lv
    /\ VecA.alive => LiveExactly(heap, VecA)

\* C16, the part the code keeps: from a state where exactly [0, Size()) are live,
\* the discipline is kept by Erase, and by an Insert in which no construction
\* throws when it is made at end() or into a full Vector of a type relocated by move
C16_SlotLifetimeOutsideEmplaceShift ==
    [][(/\ LiveExactly(heap, VecA)
        /\ \/ last'.op = "Erase"
           \/ /\ last'.op = "Insert" /\ last'.fail = "none"
              /\ (last'.idx = Size(VecA) \/ (last'.full /\ policy = "move")))
       => (~last'.lv /\ LiveExactly(heap', VecA'))]_vars
\* the smallest power of two that is at least n
SmallestPowerOfTwo(n) ==
    CHOOSE p \in {2 ^ e : e \in 0..(MaxCap + 1)} :
        /\ p >= n
        /\ \A q \in {2 ^ e : e \in 0..(MaxCap + 1)} : q >= n => p <= q

\* C17: a PushBack (EmplaceBack) or Insert (Emplace) that returns, called with
\* Size() == Capacity() == c, leaves Capacity() == 1 if c == 0 and 2*c otherwise,
\* and called with Size() < Capacity() leaves Capacity() as it was; hence after
\* n >= 1 insertions into a default-constructed Vector Capacity() is the
\* smallest power of two >= n
C17_GrowthDoubles ==
    [][(last'.op \in {"PushBack", "Insert"} /\ ~last'.err) =>
         /\ Capacity(VecA') = IF Size(VecA) < Capacity(VecA) THEN Capacity(VecA)
                              ELSE IF Capacity(VecA) = 0 THEN 1
                              ELSE 2 * Capacity(VecA)
         /\ Size(VecA') = Size(VecA) + 1
         /\ Capacity(VecA') = SmallestPowerOfTwo(Size(VecA'))]_vars

\* C17 witness: the third PushBack has grown the block from 2 to 4
C17_Witness ==
    /\ last.op = "PushBack" /\ last.full /\ ~last.err
    /\ Size(VecA) = 3
    /\ Capacity(VecA) = 4
\* region b is held by a Vector or by a RawMemory
Held(b) ==
    \/ \E n \in Names : vecs[n].alive /\ vecs[n].buf = b
    \/ \E n \in RawNames : raws[n].alive /\ raws[n].buf = b

\* every region handed out has an owner that will release it
NoLeak == \A b \in Blocks : heap[b].alloc => Held(b)

\* C18: over every sequence of operations, with and without failures, no region
\* is released twice and no region is left unreleased once its owner is
\* destroyed or overwritten
C18_ReleasedExactlyOnce ==
    /\ ~SecondRelease(heap)
    /\ NoLeak

\* C18, the part the code keeps: a call on a Vector whose block is handed out
\* releases nothing twice and leaves no region without an owner
C18_ReleasedOnceWhileOwned ==
    [][Owned(heap, VecA) => (~SecondRelease(heap') /\ NoLeak')]_vars
\* C19: PushBack(v[i]) and Insert(begin() + pos, v[i]) return and leave the
\* elements with the value v[i] had before the call appended / inserted at pos,
\* with spare capacity and on growth, for an element type relocated by move and
\* for one relocated by copy
C19_SelfInsertKeepsValue ==
    [][last'.op \in {"PushBackSelf", "InsertSelf"} =>
         /\ ~last'.err
         /\ run' = "ok"
         /\ ElemsA' = InsertAt(ElemsA, last'.idx, ElemsA[last'.val + 1])]_vars

\* C19, the part the code keeps: the statement for PushBack(v[i]), for
\* Insert(pos, v[i]) with spare capacity or at end(), and for Insert on a full
\* Vector of a type relocated by move
C19_SelfInsertKeepsValueButCopyGrowth ==
    [][(\/ last'.op = "PushBackSelf"
        \/ /\ last'.op = "InsertSelf"
           /\ (~last'.full \/ policy = "move" \/ last'.idx = Size(VecA))) =>
         /\ ~last'.err
         /\ run' = "ok"
         /\ ElemsA' = InsertAt(ElemsA, last'.idx, ElemsA[last'.val + 1])]_vars

====
